---- MODULE Spec2Model ----
(***************************************************************************)
(* A model of the B-tree of lab_btree/btree.cpp: a heap of BTreeNode       *)
(* objects (elements, children, is_leaf, parent), the tree's root pointer  *)
(* and its order, with BTree::insert, BTree::find and BTree::remove        *)
(* translated statement by statement.  Indices are the code's 0-based      *)
(* indices; At(s, i) reads s[i] of a std::vector.                          *)
(*                                                                         *)
(* Node addresses are not observable, so after every public operation the  *)
(* heap is renumbered in the order a walk from the root meets the nodes    *)
(* (children first, then the parent link); nodes no pointer leads to any   *)
(* more are dropped (the code never frees or reuses them).                 *)
(***************************************************************************)
EXTENDS Integers, Sequences, FiniteSets, TLC

\* Bounds of the model.
MaxKey == 7
MaxVal == 2
MaxOrder == 5

Keys == 1..MaxKey
Vers == 1..MaxVal
\* The ver-th value a caller passes with key; no two keys share a value.
ValueOf(key, ver) == key * (MaxVal + 1) + ver
Orders == 3..MaxOrder

\* nullptr, and V() of an int value type.
NULL == 0
DefaultV == 0

VARIABLES
  order,    \* BTree::order
  nodes,    \* the heap: node id -> BTreeNode
  root,     \* BTree::root (NULL when the tree is empty)
  run,      \* "ok", "ub" (undefined behaviour happened and the run went on), "crash"
  stored,   \* history: key -> value of the insert that stored it (keys inserted and not removed)
  last,     \* history: the last public call and whether its key was stored, <<name, wasStored>>
  script    \* the calls a scripted harness has still to make (empty in Spec)

vars == <<order, nodes, root, run, stored, last, script>>

-----------------------------------------------------------------------------
\* std::vector primitives, 0-based.

At(s, i) == s[i + 1]
InsertAt(s, i, x) == SubSeq(s, 1, i) \o <<x>> \o SubSeq(s, i + 1, Len(s))
EraseAt(s, i) == SubSeq(s, 1, i) \o SubSeq(s, i + 2, Len(s))
Back(s) == s[Len(s)]
PopBack(s) == SubSeq(s, 1, Len(s) - 1)
Range(s) == {s[i] : i \in 1..Len(s)}

DataPair(k, v) == [key |-> k, value |-> v]

\* BTreeNode(is_leaf, order): a node without elements or children.
BTreeNode(leaf) == [elements |-> <<>>, children |-> <<>>, is_leaf |-> leaf, parent |-> NULL]

\* insertion_idx(elements, key): the first index whose key is not less than key.
RECURSIVE insertion_idx_from(_, _, _)
insertion_idx_from(elements, key, i) ==
  IF i >= Len(elements) THEN Len(elements)
  ELSE IF At(elements, i).key >= key THEN i
  ELSE insertion_idx_from(elements, key, i + 1)

insertion_idx(elements, key) == insertion_idx_from(elements, key, 0)

-----------------------------------------------------------------------------
\* BTree::find.  FindCrash stands for a read outside a children vector.

FindCrash == 0 - 1

\* Mutants of found_at: a find that matches keys in leaves only, and a find
\* that leaves out the comparison found.key == key.
found_at_leaf_only(n, first_larger_idx, key) ==
  /\ n.is_leaf
  /\ n.elements # <<>>
  /\ first_larger_idx < Len(n.elements)
  /\ At(n.elements, first_larger_idx).key = key

found_at_no_key_test(n, first_larger_idx, key) ==
  /\ n.elements # <<>>
  /\ first_larger_idx < Len(n.elements)

\* Lines 63-65: the element at first_larger_idx exists and has the key.
found_at(n, first_larger_idx, key) ==
  /\ n.elements # <<>>
  /\ first_larger_idx < Len(n.elements)
  /\ At(n.elements, first_larger_idx).key = key

RECURSIVE find_rec(_, _, _)
find_rec(h, subroot, key) ==
  LET n == h[subroot]
      first_larger_idx == insertion_idx(n.elements, key)
  IN IF found_at(n, first_larger_idx, key)
     THEN At(n.elements, first_larger_idx).value
     ELSE IF ~n.is_leaf
          THEN IF first_larger_idx < Len(n.children)
               THEN find_rec(h, At(n.children, first_larger_idx), key)
               ELSE FindCrash
          ELSE DefaultV

find(h, r, key) == IF r = NULL THEN DefaultV ELSE find_rec(h, r, key)

-----------------------------------------------------------------------------
\* BTree::split_child and BTree::insert.

RECURSIVE SetParents(_, _, _)
SetParents(h, kids, p) ==
  IF kids = <<>> THEN h
  ELSE SetParents([h EXCEPT ![Head(kids)].parent = p], Tail(kids), p)

\* Mutant of split_child: the grandchildren moved to the new node keep
\* their old parent link.
split_child_no_relink(h, parent, child_idx, ord) ==
  LET child == At(h[parent].children, child_idx)
      new_child == Len(h) + 1
      c == h[child]
      mid_elem_idx == (Len(c.elements) - 1) \div 2
      mid_child_idx == Len(c.children) \div 2
      newNode == [elements |-> SubSeq(c.elements, mid_elem_idx + 2, Len(c.elements)),
                  children |-> SubSeq(c.children, mid_child_idx + 1, Len(c.children)),
                  is_leaf |-> c.is_leaf,
                  parent |-> parent]
      oldNode == [c EXCEPT !.elements = SubSeq(c.elements, 1, mid_elem_idx),
                           !.children = SubSeq(c.children, 1, mid_child_idx),
                           !.parent = parent]
      h1 == [h EXCEPT ![parent].elements = InsertAt(@, child_idx, At(c.elements, mid_elem_idx)),
                      ![parent].children = InsertAt(@, child_idx + 1, new_child)]
      h2 == Append([h1 EXCEPT ![child] = oldNode], newNode)
  IN SetParents(h2, oldNode.children, child)

\* Mutant of split_child: the middle element is taken at index n / 2.
split_child_mid_high(h, parent, child_idx, ord) ==
  LET child == At(h[parent].children, child_idx)
      new_child == Len(h) + 1
      c == h[child]
      mid_elem_idx == Len(c.elements) \div 2
      mid_child_idx == Len(c.children) \div 2
      newNode == [elements |-> SubSeq(c.elements, mid_elem_idx + 2, Len(c.elements)),
                  children |-> SubSeq(c.children, mid_child_idx + 1, Len(c.children)),
                  is_leaf |-> c.is_leaf,
                  parent |-> parent]
      oldNode == [c EXCEPT !.elements = SubSeq(c.elements, 1, mid_elem_idx),
                           !.children = SubSeq(c.children, 1, mid_child_idx),
                           !.parent = parent]
      h1 == [h EXCEPT ![parent].elements = InsertAt(@, child_idx, At(c.elements, mid_elem_idx)),
                      ![parent].children = InsertAt(@, child_idx + 1, new_child)]
      h2 == Append([h1 EXCEPT ![child] = oldNode], newNode)
      h3 == SetParents(h2, newNode.children, new_child)
  IN SetParents(h3, oldNode.children, child)

split_child(h, parent, child_idx, ord) ==
  LET child == At(h[parent].children, child_idx)
      new_child == Len(h) + 1
      c == h[child]
      mid_elem_idx == (Len(c.elements) - 1) \div 2
      mid_child_idx == Len(c.children) \div 2
      newNode == [elements |-> SubSeq(c.elements, mid_elem_idx + 2, Len(c.elements)),
                  children |-> SubSeq(c.children, mid_child_idx + 1, Len(c.children)),
                  is_leaf |-> c.is_leaf,
                  parent |-> parent]
      oldNode == [c EXCEPT !.elements = SubSeq(c.elements, 1, mid_elem_idx),
                           !.children = SubSeq(c.children, 1, mid_child_idx),
                           !.parent = parent]
      h1 == [h EXCEPT ![parent].elements = InsertAt(@, child_idx, At(c.elements, mid_elem_idx)),
                      ![parent].children = InsertAt(@, child_idx + 1, new_child)]
      h2 == Append([h1 EXCEPT ![child] = oldNode], newNode)
      h3 == SetParents(h2, newNode.children, new_child)
  IN SetParents(h3, oldNode.children, child)

\* Mutant of already_stored: the duplicate test is made in leaves only.
already_stored_leaf_only(n, node_insert_idx, pair) ==
  /\ n.is_leaf
  /\ n.elements # <<>>
  /\ node_insert_idx < Len(n.elements)
  /\ At(n.elements, node_insert_idx).key = pair.key

\* Lines 446-448: the element at node_insert_idx exists and equals pair
\* (DataPair's operator== compares the keys).
already_stored(n, node_insert_idx, pair) ==
  /\ n.elements # <<>>
  /\ node_insert_idx < Len(n.elements)
  /\ At(n.elements, node_insert_idx).key = pair.key

RECURSIVE insert_rec(_, _, _, _)
insert_rec(h, subroot, pair, ord) ==
  LET n == h[subroot]
      node_insert_idx == insertion_idx(n.elements, pair.key)
  IN IF already_stored(n, node_insert_idx, pair)
     THEN h
     ELSE IF n.is_leaf
          THEN [h EXCEPT ![subroot].elements = InsertAt(@, node_insert_idx, pair)]
          ELSE LET child == At(n.children, node_insert_idx)
                   h1 == insert_rec(h, child, pair, ord)
               IN IF Len(h1[child].elements) >= ord
                  THEN split_child(h1, subroot, node_insert_idx, ord)
                  ELSE h1

\* Mutant of insert: an overflowed root is left as it is.
insert_no_root_split(h, r, key, value, ord) ==
  LET h0 == IF r = NULL THEN Append(h, BTreeNode(TRUE)) ELSE h
      r0 == IF r = NULL THEN Len(h0) ELSE r
  IN [h |-> insert_rec(h0, r0, DataPair(key, value), ord), root |-> r0]

\* Mutant of insert: the root is wrapped and split one entry early.
insert_early_root_split(h, r, key, value, ord) ==
  LET h0 == IF r = NULL THEN Append(h, BTreeNode(TRUE)) ELSE h
      r0 == IF r = NULL THEN Len(h0) ELSE r
      h1 == insert_rec(h0, r0, DataPair(key, value), ord)
  IN IF Len(h1[r0].elements) >= ord - 1
     THEN LET new_root == Len(h1) + 1
              h2 == Append(h1, [BTreeNode(FALSE) EXCEPT !.children = <<r0>>])
          IN [h |-> split_child(h2, new_root, 0, ord), root |-> new_root]
     ELSE [h |-> h1, root |-> r0]

\* BTree::insert(key, value): the heap and the root after the call.
insert(h, r, key, value, ord) ==
  LET h0 == IF r = NULL THEN Append(h, BTreeNode(TRUE)) ELSE h
      r0 == IF r = NULL THEN Len(h0) ELSE r
      h1 == insert_rec(h0, r0, DataPair(key, value), ord)
  IN IF Len(h1[r0].elements) >= ord
     THEN LET new_root == Len(h1) + 1
              h2 == Append(h1, [BTreeNode(FALSE) EXCEPT !.children = <<r0>>])
          IN [h |-> split_child(h2, new_root, 0, ord), root |-> new_root]
     ELSE [h |-> h1, root |-> r0]

-----------------------------------------------------------------------------
\* Renumbering of the heap after a public call.

RECURSIVE AppendNew(_, _)
AppendNew(seq, more) ==
  IF more = <<>> THEN seq
  ELSE AppendNew(IF Head(more) \in Range(seq) THEN seq ELSE Append(seq, Head(more)),
                 Tail(more))

RECURSIVE Walk(_, _, _)
Walk(h, seen, i) ==
  IF i > Len(seen) THEN seen
  ELSE LET n == h[seen[i]]
           next == n.children \o (IF n.parent # NULL THEN <<n.parent>> ELSE <<>>)
       IN Walk(h, AppendNew(seen, next), i + 1)

Renumber(h, r) ==
  IF r = NULL THEN [h |-> <<>>, root |-> NULL]
  ELSE LET seen == Walk(h, <<r>>, 1)
           pos(n) == IF n = NULL THEN NULL ELSE CHOOSE i \in 1..Len(seen) : seen[i] = n
       IN [h |-> [i \in 1..Len(seen) |->
                    LET n == h[seen[i]]
                    IN [n EXCEPT !.children = [j \in 1..Len(n.children) |-> pos(n.children[j])],
                                 !.parent = pos(n.parent)]],
           root |-> 1]

-----------------------------------------------------------------------------
\* BTree::is_valid(order): the structural invariants.

RECURSIVE SubtreeKeys(_, _)
SubtreeKeys(h, n) ==
  {e.key : e \in Range(h[n].elements)}
    \cup UNION {SubtreeKeys(h, c) : c \in Range(h[n].children)}

RECURSIVE LeafDepths(_, _, _)
LeafDepths(h, n, d) ==
  IF h[n].children = <<>> THEN {d}
  ELSE UNION {LeafDepths(h, c, d + 1) : c \in Range(h[n].children)}

RECURSIVE Subtree(_, _)
Subtree(h, n) == {n} \cup UNION {Subtree(h, c) : c \in Range(h[n].children)}

Sorted(elements) ==
  \A i \in 1..(Len(elements) - 1) : elements[i].key < elements[i + 1].key

MinEntries(ord) == (ord + 1) \div 2 - 1

NodeValid(h, n, r, ord) ==
  LET x == h[n]
  IN /\ Sorted(x.elements)
     /\ Len(x.elements) <= ord - 1
     /\ n # r => Len(x.elements) >= MinEntries(ord)
     /\ x.is_leaf => x.children = <<>>
     /\ ~x.is_leaf =>
          /\ Len(x.children) = Len(x.elements) + 1
          /\ \A i \in 1..Len(x.elements) :
               /\ \A k \in SubtreeKeys(h, x.children[i]) : k < x.elements[i].key
               /\ \A k \in SubtreeKeys(h, x.children[i + 1]) : k > x.elements[i].key

is_valid(h, r, ord) ==
  \/ r = NULL
  \/ /\ \A n \in Subtree(h, r) : NodeValid(h, n, r, ord)
     /\ Cardinality(LeafDepths(h, r, 0)) = 1

-----------------------------------------------------------------------------
\* BTree::remove.  A call works on a machine state m = [h, root, st]: the
\* heap, the root and "ok", "ub" or "crash".  Each function returns the set
\* of machine states the build can produce; undefined behaviour gives more
\* than one.  A dereference of nullptr, back() of a vector that never
\* allocated and a pointer read outside a children vector end the process
\* ("crash").  A DataPair read outside an elements vector, or through the
\* uninitialized left_sibiling, crashes or yields some stale DataPair.

Threshold(ord) == (ord - 1) \div 2

Crash(m) == [m EXCEPT !.st = "crash"]
Ub(m) == [m EXCEPT !.st = "ub"]

StalePairs(h) == {DataPair(0, DefaultV)} \cup UNION {Range(h[n].elements) : n \in DOMAIN h}

borrow_from_sibilings(m, parent, idx, before_idx, ord) ==
  LET h == m.h
      p == h[parent]
      cur == At(p.children, before_idx)
  IN IF before_idx # 0
     THEN LET left_sibiling == At(p.children, before_idx - 1)
          IN IF Len(h[left_sibiling].elements) > Threshold(ord)
             THEN {[m |-> [m EXCEPT !.h =
                       [h EXCEPT ![cur].elements[idx + 1] = At(p.elements, before_idx - 1),
                                 ![parent].elements[before_idx] = Back(h[left_sibiling].elements),
                                 ![left_sibiling].elements = PopBack(@)]],
                    ret |-> TRUE]}
             ELSE {[m |-> m, ret |-> FALSE]}
     ELSE IF before_idx # Len(p.elements)
          THEN LET right_sibiling == At(p.children, before_idx + 1)
               IN IF Len(h[right_sibiling].elements) > Threshold(ord)
                  THEN {[m |-> Crash(m), ret |-> TRUE]} \cup
                       (IF before_idx + 1 < Len(p.elements)
                        THEN \* left_sibiling is read uninitialized
                             {[m |-> Ub([m EXCEPT !.h =
                                  [h EXCEPT ![cur].elements[idx + 1] = At(p.elements, before_idx + 1),
                                            ![parent].elements[before_idx + 2] = x,
                                            ![right_sibiling].elements = PopBack(@)]]),
                               ret |-> TRUE] : x \in StalePairs(h)}
                        ELSE \* parent->elements[before_idx+1] is outside the vector too
                             {[m |-> Ub([m EXCEPT !.h =
                                  [h EXCEPT ![cur].elements[idx + 1] = g,
                                            ![right_sibiling].elements = PopBack(@)]]),
                               ret |-> TRUE] : g \in StalePairs(h)})
                  ELSE {[m |-> m, ret |-> FALSE]}
          ELSE {[m |-> m, ret |-> FALSE]}

borrow_from_parent(m, parent, idx, before_idx) ==
  LET h == m.h
      p == h[parent]
  IN IF before_idx # 0
     THEN LET left_sibiling == At(p.children, before_idx - 1)
          IN [m EXCEPT !.h =
                [h EXCEPT ![left_sibiling].elements = Append(@, At(p.elements, before_idx - 1)),
                          ![parent].elements = EraseAt(@, before_idx - 1),
                          ![parent].children = EraseAt(@, before_idx)]]
     ELSE LET right_sibiling == At(p.children, before_idx + 1)
          IN [m EXCEPT !.h =
                [h EXCEPT ![right_sibiling].elements = <<At(p.elements, before_idx)>> \o @,
                          ![parent].elements = EraseAt(@, before_idx),
                          ![parent].children = EraseAt(@, before_idx)]]

\* Lines 201-226: the merged node is handed to a sibling of parent.
reconstruct_parent(m, parent, merged_node, before_idxes, ord) ==
  LET h == m.h
      gp == h[parent].parent
  IN IF before_idxes = <<>> \/ gp = NULL
     THEN {Crash(m)}
     ELSE LET before_idx == Back(before_idxes)
              g == h[gp]
              parent_insert_idx == IF before_idx # 0 THEN before_idx - 1 ELSE before_idx + 1
          IN IF parent_insert_idx >= Len(g.children)
             THEN {Crash(m)}
             ELSE LET uncle == At(g.children, parent_insert_idx)
                      h1 == IF before_idx # 0
                            THEN [h EXCEPT ![merged_node].parent = uncle,
                                           ![uncle].elements = Append(@, At(g.elements, before_idx - 1)),
                                           ![uncle].children = Append(@, merged_node),
                                           ![gp].elements = EraseAt(@, before_idx - 1),
                                           ![gp].children = EraseAt(@, before_idx)]
                            ELSE [h EXCEPT ![merged_node].parent = uncle,
                                           ![uncle].elements = <<At(g.elements, before_idx)>> \o @,
                                           ![uncle].children = <<merged_node>> \o @,
                                           ![gp].elements = EraseAt(@, before_idx),
                                           ![gp].children = EraseAt(@, before_idx)]
                      up == h1[uncle].parent
                      doSplit == Len(h1[uncle].elements) >= ord
                      splitOk == up # NULL /\ parent_insert_idx < Len(h1[up].children)
                      h2 == IF doSplit THEN split_child(h1, up, parent_insert_idx, ord) ELSE h1
                  IN IF doSplit /\ ~splitOk
                     THEN {Crash(m)}
                     ELSE {[m EXCEPT !.h = h2,
                                     !.root = IF Len(h2[m.root].elements) = 0
                                              THEN h2[merged_node].parent ELSE m.root]}

remove_and_reconstruct(m, parent, idx, before_idxes, ord) ==
  LET h == m.h
      p == h[parent]
      before_idx == Back(before_idxes)
      current_node == At(p.children, before_idx)
      rest == EraseAt(h[current_node].elements, idx)
  IN IF ~h[current_node].is_leaf
     THEN {m}
     ELSE IF before_idx # 0
          THEN LET left_sibiling == At(p.children, before_idx - 1)
                   m1 == [m EXCEPT !.h =
                            [h EXCEPT ![left_sibiling].elements =
                                        @ \o <<At(p.elements, before_idx - 1)>> \o rest,
                                      ![parent].elements = EraseAt(@, before_idx - 1),
                                      ![parent].children = EraseAt(@, before_idx)]]
               IN reconstruct_parent(m1, parent, left_sibiling, PopBack(before_idxes), ord)
          ELSE \* erase(begin() + before_idx - 1) is erase(begin() - 1): the
               \* elements move one slot down, over the word before the buffer
               LET right_sibiling == At(p.children, before_idx + 1)
                   m1 == Ub([m EXCEPT !.h =
                            [h EXCEPT ![right_sibiling].elements =
                                        rest \o <<At(p.elements, before_idx)>> \o @,
                                      ![parent].elements = Tail(@),
                                      ![parent].children = EraseAt(@, before_idx)]])
               IN {Crash(m)} \cup
                  reconstruct_parent(m1, parent, right_sibiling, PopBack(before_idxes), ord)

remove_from_leaf(m, subroot, idx, before_idxes, ord) ==
  LET h == m.h
  IN IF Len(h[subroot].elements) > Threshold(ord)
     THEN {[m EXCEPT !.h = [h EXCEPT ![subroot].elements = EraseAt(@, idx)]]}
     ELSE IF before_idxes = <<>> \/ h[subroot].parent = NULL
          THEN {Crash(m)}
          ELSE LET parent == h[subroot].parent
                   before_idx == Back(before_idxes)
                   tried == borrow_from_sibilings(m, parent, idx, before_idx, ord)
               IN UNION {
                    IF r.ret \/ r.m.st = "crash" THEN {r.m}
                    ELSE IF Len(r.m.h[parent].elements) > Threshold(ord)
                         THEN {borrow_from_parent(r.m, parent, idx, before_idx)}
                         ELSE remove_and_reconstruct(r.m, parent, idx, before_idxes, ord)
                    : r \in tried}

RECURSIVE RightmostLeaf(_, _)
RightmostLeaf(h, n) == IF h[n].is_leaf THEN n ELSE RightmostLeaf(h, Back(h[n].children))

\* The leftmost leaf below n, and before_idxes with a 0 pushed per level.
RECURSIVE LeftmostLeaf(_, _, _)
LeftmostLeaf(h, n, before_idxes) ==
  IF h[n].is_leaf THEN [node |-> n, before_idxes |-> before_idxes]
  ELSE LeftmostLeaf(h, At(h[n].children, 0), Append(before_idxes, 0))

remove_from_inner(m, subroot, idx, before_idxes, ord) ==
  LET h == m.h
      left_max_node == RightmostLeaf(h, At(h[subroot].children, idx))
      right == LeftmostLeaf(h, At(h[subroot].children, idx + 1), Append(before_idxes, idx + 1))
      right_min_node == right.node
  IN IF Len(h[left_max_node].elements) > Threshold(ord)
     THEN {[m EXCEPT !.h = [h EXCEPT ![subroot].elements[idx + 1] = Back(h[left_max_node].elements),
                                     ![left_max_node].elements = PopBack(@)]]}
     ELSE IF Len(h[right_min_node].elements) > Threshold(ord)
          THEN {[m EXCEPT !.h = [h EXCEPT ![subroot].elements[idx + 1] = At(h[right_min_node].elements, 0),
                                          ![right_min_node].elements = EraseAt(@, 0)]]}
          ELSE remove_from_leaf(
                 [m EXCEPT !.h = [h EXCEPT ![subroot].elements[idx + 1] = At(h[right_min_node].elements, 0)]],
                 right_min_node, 0, right.before_idxes, ord)

\* Mutant of remove_found: the comparison found.key == key is left out.
remove_found_no_key_test(n, first_larger_idx, key) ==
  /\ n.elements # <<>>
  /\ first_larger_idx < Len(n.elements)

\* Lines 307-309: the element at first_larger_idx exists and has the key.
remove_found(n, first_larger_idx, key) ==
  /\ n.elements # <<>>
  /\ first_larger_idx < Len(n.elements)
  /\ At(n.elements, first_larger_idx).key = key

RECURSIVE remove_rec(_, _, _, _, _)
remove_rec(m, subroot, key, before_idxes, ord) ==
  LET n == m.h[subroot]
      first_larger_idx == insertion_idx(n.elements, key)
      found == remove_found(n, first_larger_idx, key)
      after == IF ~found THEN {m}
               ELSE IF n.is_leaf
                    THEN remove_from_leaf(m, subroot, first_larger_idx, before_idxes, ord)
                    ELSE remove_from_inner(m, subroot, first_larger_idx, before_idxes, ord)
  IN UNION {
       IF m1.st = "crash" \/ m1.h[subroot].is_leaf THEN {m1}
       ELSE IF first_larger_idx >= Len(m1.h[subroot].children) THEN {Crash(m1)}
       ELSE remove_rec(m1, At(m1.h[subroot].children, first_larger_idx), key,
                       Append(before_idxes, first_larger_idx), ord)
       : m1 \in after}

\* BTree::remove(key): the machine states the call can end in.
remove(h, r, key, ord) ==
  LET m == [h |-> h, root |-> r, st |-> "ok"]
  IN IF r # NULL THEN remove_rec(m, r, key, <<>>, ord) ELSE {m}

-----------------------------------------------------------------------------
Init ==
  /\ order \in Orders
  /\ nodes = <<>>
  /\ root = NULL
  /\ run = "ok"
  /\ stored = [k \in {} |-> 0]
  /\ last = <<"new", FALSE>>
  /\ script = <<>>

\* A call of insert(key, value) by the harness.
InsertCall(key, value) ==
  /\ LET res == insert(nodes, root, key, value, order)
         out == Renumber(res.h, res.root)
     IN /\ nodes' = out.h
        /\ root' = out.root
  /\ stored' = IF key \in DOMAIN stored THEN stored
               ELSE [k \in DOMAIN stored \cup {key} |-> IF k = key THEN value ELSE stored[k]]
  /\ last' = <<"insert", key \in DOMAIN stored>>
  /\ UNCHANGED <<order, run>>

\* A call of remove(key) by the harness.
RemoveCall(key) ==
  /\ \E m \in remove(nodes, root, key, order) :
       IF m.st = "crash"
       THEN \* the process is gone; the heap stays as it was before the call
            /\ run' = "crash"
            /\ UNCHANGED <<nodes, root>>
       ELSE LET out == Renumber(m.h, m.root)
            IN /\ nodes' = out.h
               /\ root' = out.root
               /\ run' = IF m.st = "ub" THEN "ub" ELSE run
  /\ stored' = [k \in DOMAIN stored \ {key} |-> stored[k]]
  /\ last' = <<"remove", key \in DOMAIN stored>>
  /\ UNCHANGED order

\* Values are opaque to the code (it only copies them), so a key that is not
\* stored is inserted with ValueOf(key, 1) and only an insert of a stored key
\* draws its value freely.  Once undefined behaviour has happened nothing
\* about the rest of the run is defined: Spec follows a run up to there.
Insert(key, value) ==
  /\ run = "ok"
  /\ key \notin DOMAIN stored => value = ValueOf(key, 1)
  /\ InsertCall(key, value)
  /\ UNCHANGED script

Remove(key) ==
  /\ run = "ok"
  /\ RemoveCall(key)
  /\ UNCHANGED script

InsertNext == \E key \in Keys, ver \in Vers : Insert(key, ValueOf(key, ver))

RemoveNext == \E key \in Keys : Remove(key)

Next == InsertNext \/ RemoveNext

\* Any interleaving of insert and remove calls on a tree of any order.
Spec == Init /\ [][Next]_vars

\* Inserts only, from the empty tree.
SpecInsert == Init /\ [][InsertNext]_vars

\* A tree is built by inserts, then keys are removed from it: no insert
\* follows a remove.
BuildNext == last[1] # "remove" /\ InsertNext

SpecRemove == Init /\ [][BuildNext \/ RemoveNext]_vars

-----------------------------------------------------------------------------
\* sequential_remove_test: the 14 inserts and 5 removes of the test, on an
\* order-3 tree.  The test inserts the values of TestValue; the scenario is
\* also stated with value = key, so each insert takes either.  The script
\* runs on through undefined behaviour as long as the process lives.

ScenarioInserts == <<39, 4, 5, 52, 99, 23, 16, 9, 55, 85, 100, 44, 33, 101>>
ScenarioRemoves == <<23, 16, 100, 99, 101>>
TestValue ==
  [k \in Range(ScenarioInserts) |->
     CASE k = 39 -> 5 [] k = 4 -> 7 [] k = 5 -> 43 [] k = 52 -> 3 [] k = 99 -> 2
       [] k = 23 -> 7 [] k = 16 -> 2 [] k = 9 -> 4 [] k = 55 -> 1 [] k = 85 -> 3
       [] k = 100 -> 3 [] k = 44 -> 14 [] k = 33 -> 4 [] k = 101 -> 54]

ScenarioScript ==
  [i \in 1..Len(ScenarioInserts) |-> <<"insert", ScenarioInserts[i]>>]
    \o [i \in 1..Len(ScenarioRemoves) |-> <<"remove", ScenarioRemoves[i]>>]

ScenarioInit ==
  /\ order = 3
  /\ nodes = <<>>
  /\ root = NULL
  /\ run = "ok"
  /\ stored = [k \in {} |-> 0]
  /\ last = <<"new", FALSE>>
  /\ script = ScenarioScript

ScenarioInsert ==
  /\ script # <<>> /\ Head(script)[1] = "insert"
  /\ run # "crash"
  /\ \E value \in {Head(script)[2], TestValue[Head(script)[2]]} :
       InsertCall(Head(script)[2], value)
  /\ script' = Tail(script)

ScenarioRemove ==
  /\ script # <<>> /\ Head(script)[1] = "remove"
  /\ run # "crash"
  /\ RemoveCall(Head(script)[2])
  /\ script' = Tail(script)

ScenarioNext == ScenarioInsert \/ ScenarioRemove

SpecScenario == ScenarioInit /\ [][ScenarioNext]_vars

-----------------------------------------------------------------------------
\* Observations the claims are stated with.

Find(key) == find(nodes, root, key)
Valid == is_valid(nodes, root, order)
StoredKeys == DOMAIN stored
RECURSIVE HeightFrom(_, _)
HeightFrom(h, n) ==
  IF h[n].children = <<>> THEN 1 ELSE 1 + HeightFrom(h, At(h[n].children, 0))
Height == IF root = NULL THEN 0 ELSE HeightFrom(nodes, root)
\* The keys held by nodes that are not leaves.
InnerKeys ==
  IF root = NULL THEN {}
  ELSE UNION {{e.key : e \in Range(nodes[n].elements)} :
                n \in {x \in Subtree(nodes, root) : ~nodes[x].is_leaf}}
\* Line 352 holds in insert(key, value): the recursive insert leaves the
\* root with order or more entries.
RootOverflows(key, value) ==
  /\ root # NULL
  /\ Len(insert_rec(nodes, root, DataPair(key, value), order)[root].elements) >= order
\* The step is a call of insert(key, value).
IsInsertOf(key, value) ==
  LET res == insert(nodes, root, key, value, order)
      out == Renumber(res.h, res.root)
  IN last'[1] = "insert" /\ nodes' = out.h /\ root' = out.root
\* The keys the tree holds, reached from the root.
TreeKeys == IF root = NULL THEN {} ELSE SubtreeKeys(nodes, root)
\* The calls of split_child an insert of key makes, each with the heap it
\* is made on: SplitChain(h, n) follows an overflow of node n upwards.
RECURSIVE DescentLeaf(_, _, _)
DescentLeaf(h, n, key) ==
  IF h[n].is_leaf THEN n
  ELSE DescentLeaf(h, At(h[n].children, insertion_idx(h[n].elements, key)), key)
IdxIn(h, p, n) == CHOOSE i \in 0..(Len(h[p].children) - 1) : At(h[p].children, i) = n
RECURSIVE SplitChain(_, _)
SplitChain(h, n) ==
  IF Len(h[n].elements) < order THEN {}
  ELSE IF n = root
       THEN {[h |-> Append(h, [BTreeNode(FALSE) EXCEPT !.children = <<root>>]),
              parent |-> Len(h) + 1, child_idx |-> 0]}
       ELSE LET p == h[n].parent
                i == IdxIn(h, p, n)
            IN {[h |-> h, parent |-> p, child_idx |-> i]}
                 \cup SplitChain(split_child(h, p, i, order), p)
SplitsOfInsert(key) ==
  LET leaf == DescentLeaf(nodes, root, key)
      pair == DataPair(key, ValueOf(key, 1))
      h == [nodes EXCEPT ![leaf].elements = InsertAt(@, insertion_idx(@, key), pair)]
  IN SplitChain(h, leaf)
\* split_child's arguments: any child of any node of the tree, and the calls
\* the insert of a key the tree does not hold would make.
SplitCases ==
  IF root = NULL THEN {}
  ELSE UNION {{[h |-> nodes, parent |-> p, child_idx |-> i] :
                  i \in 0..(Len(nodes[p].children) - 1)} : p \in DOMAIN nodes}
         \cup UNION {SplitsOfInsert(k) : k \in Keys \ TreeKeys}
NodeKeys(n) == {e.key : e \in Range(nodes[n].elements)}
\* The leaf that holds key (key is in a leaf of the tree).
LeafOf(key) ==
  CHOOSE n \in Subtree(nodes, root) : nodes[n].is_leaf /\ key \in NodeKeys(n)
InLeaf(key) ==
  /\ root # NULL
  /\ \E n \in Subtree(nodes, root) : nodes[n].is_leaf /\ key \in NodeKeys(n)
\* The 0-based position of node n among the children of its parent.
ChildIdx(n) ==
  CHOOSE i \in 0..(Len(nodes[nodes[n].parent].children) - 1) :
    At(nodes[nodes[n].parent].children, i) = n
\* Key is in a non-root leaf that holds the minimum number of entries.
InMinLeaf(key) ==
  /\ InLeaf(key)
  /\ LeafOf(key) # root
  /\ Len(nodes[LeafOf(key)].elements) = MinEntries(order)
\* The leaf of key has an immediate left (right) sibling with a surplus.
LeftSurplus(key) ==
  LET n == LeafOf(key)
      p == nodes[n].parent
  IN /\ ChildIdx(n) >= 1
     /\ Len(nodes[At(nodes[p].children, ChildIdx(n) - 1)].elements) > MinEntries(order)
RightSurplus(key) ==
  LET n == LeafOf(key)
      p == nodes[n].parent
  IN /\ ChildIdx(n) + 1 < Len(nodes[p].children)
     /\ Len(nodes[At(nodes[p].children, ChildIdx(n) + 1)].elements) > MinEntries(order)
\* Node n (not the root) has an adjacent sibling with a surplus.
SiblingSurplus(n) ==
  LET p == nodes[n].parent
      ci == ChildIdx(n)
  IN \E j \in {ci - 1, ci + 1} :
       /\ 0 <= j /\ j < Len(nodes[p].children)
       /\ Len(nodes[At(nodes[p].children, j)].elements) > MinEntries(order)
\* Taking an entry out of node n (not the root) empties the root: n and its
\* ancestors below the root are at minimum occupancy without a sibling to
\* borrow from, and the root holds one entry.
RECURSIVE CollapseDue(_)
CollapseDue(n) ==
  /\ Len(nodes[n].elements) = MinEntries(order)
  /\ ~SiblingSurplus(n)
  /\ IF nodes[n].parent = root THEN Len(nodes[root].elements) = 1
     ELSE CollapseDue(nodes[n].parent)
\* The leaf a remove of key takes an entry out of: the leaf of key, or for
\* a key in an internal node the leaf of its predecessor if that leaf has a
\* surplus and else the leaf of its successor.
TargetLeaf(key) ==
  IF InLeaf(key) THEN LeafOf(key)
  ELSE LET x == CHOOSE n \in Subtree(nodes, root) : key \in NodeKeys(n)
           idx == insertion_idx(nodes[x].elements, key)
           pred == RightmostLeaf(nodes, At(nodes[x].children, idx))
       IN IF Len(nodes[pred].elements) > MinEntries(order) THEN pred
          ELSE LeftmostLeaf(nodes, At(nodes[x].children, idx + 1), <<>>).node
\* The internal node that holds key, and the entry that takes key's place:
\* the largest of the predecessor's leaf if that leaf has a surplus, else the
\* smallest of the successor's leaf.
InnerOf(key) ==
  CHOOSE n \in Subtree(nodes, root) : ~nodes[n].is_leaf /\ key \in NodeKeys(n)
Substitute(key) ==
  LET x == InnerOf(key)
      idx == insertion_idx(nodes[x].elements, key)
      pred == RightmostLeaf(nodes, At(nodes[x].children, idx))
  IN IF Len(nodes[pred].elements) > MinEntries(order)
     THEN Back(nodes[pred].elements)
     ELSE At(nodes[TargetLeaf(key)].elements, 0)
\* A remove of key, which the tree holds, has to collapse the root.
RootCollapseDue(key) ==
  /\ TargetLeaf(key) # root
  /\ CollapseDue(TargetLeaf(key))
\* The root is an internal node without entries.
EmptyInnerRoot == root # NULL /\ ~nodes[root].is_leaf /\ nodes[root].elements = <<>>

-----------------------------------------------------------------------------
\* C1.  Insert/find round trip: after any sequence of inserts into an empty
\* tree of order >= 3, find(k) returns the value k was inserted with, for
\* every inserted key k, also for keys that splits promoted into internal
\* nodes.  (SpecInsert)
C1_InsertFindRoundTrip == \A k \in StoredKeys : Find(k) = stored[k]

\* A tree of height 3 whose internal nodes hold stored keys that are found.
C1_Witness ==
  /\ Height >= 3
  /\ \E k \in InnerKeys \cap StoredKeys : Find(k) = stored[k]

\* C2.  After every insert of a sequence of inserts into an empty tree,
\* is_valid(order) holds: sorted entries, entries+1 children per non-leaf,
\* subtrees between their separators, occupancy bounds, leaves at one depth.
\* (SpecInsert)
C2_ValidAfterInsert == last[1] = "insert" => Valid

\* An insert has just split an internal node: the tree has height 3.
C2_Witness == last = <<"insert", FALSE>> /\ Height >= 3 /\ Valid

\* C3.  find reports absent (returns V()) for every key never inserted, on
\* the empty tree and after any sequence of inserts.  The keys below and
\* above all keys of the model are probed as well.  (SpecInsert)
C3_AbsentKeysNotFound ==
  \A k \in (Keys \cup {0, MaxKey + 1}) \ StoredKeys : Find(k) = DefaultV

\* A tree with internal nodes and a key never inserted between stored keys.
C3_Witness ==
  /\ Height >= 2
  /\ \E k \in Keys \ StoredKeys :
       /\ \E a \in StoredKeys : a < k
       /\ \E b \in StoredKeys : b > k
       /\ Find(k) = DefaultV

\* C4.  Inserting a key that is stored, with the same or another value,
\* leaves the whole tree as it is (no entry added or changed, no split, no
\* new root), wherever the key sits.  (SpecInsert)
C4_ReinsertChangesNothing ==
  \A k \in StoredKeys, ver \in Vers :
    LET res == insert(nodes, root, k, ValueOf(k, ver), order)
    IN res.h = nodes /\ res.root = root

\* The last call was an insert of a stored key, and keys sit in internal
\* nodes as well as in leaves.
C4_Witness ==
  /\ last = <<"insert", TRUE>>
  /\ InnerKeys # {} /\ StoredKeys \ InnerKeys # {}
  /\ \A k \in StoredKeys : Find(k) = stored[k]

\* C5.  A key that a remove call has just taken out of a tree built by
\* inserts is reported absent by find after the call: the call returns and
\* find(k) gives V().  (SpecRemove; violated: on a root leaf at or below the
\* threshold remove_from_leaf dereferences the null parent.)
C5_RemovedKeysAbsent ==
  [][\A k \in DOMAIN stored \ DOMAIN stored' :
       run' # "crash" /\ find(nodes', root', k) = DefaultV]_vars

\* C6.  After any removals from a tree built by inserts, every key inserted
\* and not removed is still found with its value, for every order; stated
\* here of the removals that return without undefined behaviour only.
\* (SpecRemove; violated at order 5: borrowing from the left sibling stores
\* the separator at the removed index instead of the front of the leaf.)
C6_RetainedKeysFound ==
  (last[1] = "remove" /\ run = "ok") =>
    \A k \in StoredKeys : Find(k) = stored[k]

\* C7.  After every remove of a sequence of removals from a tree built by
\* inserts, is_valid(order) holds; stated here of the removals that return
\* without undefined behaviour only.  (SpecRemove; violated at order 5.)
C7_ValidAfterRemove == (last[1] = "remove" /\ run = "ok") => Valid

\* C8.  remove of a key the tree does not hold can end in one way only: the
\* call returns with every node (entries, children, parent links) and the
\* root as they were, so is_valid is unchanged as well; on the empty tree the
\* root stays null.  The keys below and above all keys of the model are
\* probed as well.  (Spec)
C8_RemoveAbsentIsNoOp ==
  \A k \in (Keys \cup {0, MaxKey + 1}) \ TreeKeys :
    remove(nodes, root, k, order) = {[h |-> nodes, root |-> root, st |-> "ok"]}

\* The last call was a remove of a key not stored, on a tree with internal
\* nodes, and the tree still finds every stored key.
C8_Witness ==
  /\ last = <<"remove", FALSE>>
  /\ run = "ok"
  /\ Height >= 2
  /\ \A k \in StoredKeys : Find(k) = stored[k]

\* C9.  When a remove has taken out the last stored key, the call has
\* returned without error, the root is null and is_valid holds.
\* (SpecRemove; violated: the last key sits in a root leaf, where
\* remove_from_leaf dereferences the null parent; root is never set to null.)
C9_RemoveAllLeavesEmpty ==
  (last = <<"remove", TRUE>> /\ StoredKeys = {}) =>
    (run = "ok" /\ root = NULL /\ Valid)

\* C10.  In sequential_remove_test, after each of the removes 23, 16, 100,
\* 99, 101 the process is alive, is_valid(3) holds and every remaining key
\* is found with its inserted value.  (SpecScenario; violated: remove(16)
\* executes elements.erase(begin() - 1) at line 183, which may crash.)
C10_ScenarioRemovals ==
  last[1] = "remove" =>
    /\ run # "crash"
    /\ Valid
    /\ \A k \in StoredKeys : Find(k) = stored[k]

\* C11.  From every tree a defined run reaches and for every key, find and
\* remove run to completion: the call returns (insert returns in every case:
\* its descent follows the children of a finite tree).  (Spec; violated:
\* remove of a key in a root leaf at or below the threshold does not return,
\* it dereferences the null parent.)
C11_CallsComplete ==
  run = "ok" =>
    \A k \in Keys :
      /\ find(nodes, root, k) # FindCrash
      /\ \A m \in remove(nodes, root, k, order) : m.st # "crash"

\* C12.  A remove of a stored key from a tree whose root is a leaf returns
\* and has only erased the entry: the tree is still one leaf (or empty) and
\* holds the other keys.  (SpecRemove; violated: with the root at or below
\* the threshold remove_from_leaf goes to borrow_from_sibilings with the
\* root's null parent.)
C12_RootLeafJustErases ==
  [][\A k \in DOMAIN stored \ DOMAIN stored' :
       (root # NULL /\ nodes[root].is_leaf) =>
         /\ run' = "ok"
         /\ Height' <= 1
         /\ TreeKeys' = TreeKeys \ {k}]_vars

\* C13.  Borrow from the left sibling: when a remove takes a key out of a
\* non-root leaf at minimum occupancy whose immediate left sibling has a
\* surplus, the call returns with the same nodes, the leaf holds the old
\* separator followed by its other entries (sorted, as many as before), the
\* separator in the parent is the sibling's largest entry and the sibling
\* has lost just that entry.  (SpecRemove; violated at order 5 when the key
\* is not the first of the leaf: line 93 stores the separator at
\* elements[idx].)
C13_BorrowFromLeft ==
  [][\A k \in DOMAIN stored \ DOMAIN stored' :
       (InMinLeaf(k) /\ LeftSurplus(k)) =>
         LET n == LeafOf(k)
             p == nodes[n].parent
             ci == ChildIdx(n)
             left == At(nodes[p].children, ci - 1)
             idx == insertion_idx(nodes[n].elements, k)
         IN /\ run' = "ok"
            /\ Len(nodes') = Len(nodes)
            /\ nodes'[n].elements =
                 <<At(nodes[p].elements, ci - 1)>> \o EraseAt(nodes[n].elements, idx)
            /\ Sorted(nodes'[n].elements)
            /\ nodes'[p].elements =
                 [nodes[p].elements EXCEPT ![ci] = Back(nodes[left].elements)]
            /\ nodes'[left].elements = PopBack(nodes[left].elements)]_vars

\* C14.  Borrow from the right sibling: when a remove takes a key out of a
\* non-root leaf at minimum occupancy that has no left sibling with a
\* surplus and whose immediate right sibling has one, the call returns with
\* the same nodes, the leaf holds its other entries followed by the old
\* separator, the separator in the parent is the sibling's smallest entry
\* and the sibling has lost just that entry.  (SpecRemove; violated: lines
\* 100-111 read the uninitialized left_sibiling and
\* parent->elements[before_idx+1], and are not reached at all when the leaf
\* has a left sibling.)
C14_BorrowFromRight ==
  [][\A k \in DOMAIN stored \ DOMAIN stored' :
       (InMinLeaf(k) /\ ~LeftSurplus(k) /\ RightSurplus(k)) =>
         LET n == LeafOf(k)
             p == nodes[n].parent
             ci == ChildIdx(n)
             right == At(nodes[p].children, ci + 1)
             idx == insertion_idx(nodes[n].elements, k)
         IN /\ run' = "ok"
            /\ Len(nodes') = Len(nodes)
            /\ nodes'[n].elements =
                 Append(EraseAt(nodes[n].elements, idx), At(nodes[p].elements, ci))
            /\ nodes'[p].elements =
                 [nodes[p].elements EXCEPT ![ci + 1] = At(nodes[right].elements, 0)]
            /\ nodes'[right].elements = Tail(nodes[right].elements)]_vars

\* C15.  Merge: when a remove takes a key out of a non-root leaf at minimum
\* occupancy and neither adjacent sibling has a surplus, the call returns,
\* some leaf holds, sorted, exactly the leaf's other entries, the separator
\* and the entries of one adjacent sibling, the tree has lost only the
\* removed key, and the ancestors are repaired: is_valid holds.
\* (SpecRemove; violated: with the parent at or below the threshold
\* remove_and_reconstruct reaches for parent->parent, null under the root,
\* and at before_idx 0 erases at begin() - 1.)
C15_Merge ==
  [][\A k \in DOMAIN stored \ DOMAIN stored' :
       (InMinLeaf(k) /\ ~LeftSurplus(k) /\ ~RightSurplus(k)) =>
         LET n == LeafOf(k)
             p == nodes[n].parent
             ci == ChildIdx(n)
             withLeft == IF ci = 0 THEN {}
                         ELSE {NodeKeys(At(nodes[p].children, ci - 1))
                                 \cup {At(nodes[p].elements, ci - 1).key}
                                 \cup (NodeKeys(n) \ {k})}
             withRight == IF ci + 1 >= Len(nodes[p].children) THEN {}
                          ELSE {NodeKeys(At(nodes[p].children, ci + 1))
                                  \cup {At(nodes[p].elements, ci).key}
                                  \cup (NodeKeys(n) \ {k})}
         IN /\ run' = "ok"
            /\ root' # NULL
            /\ \E x \in Subtree(nodes', root') :
                 /\ nodes'[x].is_leaf
                 /\ Sorted(nodes'[x].elements)
                 /\ NodeKeys(x)' \in withLeft \cup withRight
            /\ TreeKeys' = TreeKeys \ {k}
            /\ Valid']_vars

\* C16.  Root collapse: when a remove takes an entry out of a leaf of a
\* valid tree and the merges this causes empty the root, the call returns
\* and the tree is one level lower; a remove that returns lowers the height
\* by at most one, and only in that case, and never leaves an internal root
\* without entries.  (SpecRemove; violated: the repair of a parent that is
\* the root reads parent->parent, which is null.)
C16_RootCollapse ==
  [][\A k \in DOMAIN stored \ DOMAIN stored' :
       (Valid /\ k \in TreeKeys) =>
         /\ RootCollapseDue(k) => (run' = "ok" /\ Height' = Height - 1)
         /\ (run' = "ok" /\ Height' # Height) =>
              (Height' = Height - 1 /\ RootCollapseDue(k))
         /\ run' = "ok" => ~EmptyInnerRoot']_vars

\* C17.  A remove of a key held by an internal node of a valid tree returns;
\* afterwards the key is absent, every other key is held once and the
\* separators are in order (is_valid holds); when the substitute's leaf has a
\* surplus the nodes stay the same, the substitute (the predecessor if its
\* leaf has a surplus, else the successor) stands where the key was and its
\* leaf has lost just it.  (SpecRemove; violated: when the successor's leaf
\* is at minimum its repair crashes or runs into undefined behaviour.)
C17_RemoveFromInner ==
  [][\A k \in DOMAIN stored \ DOMAIN stored' :
       (Valid /\ k \in InnerKeys) =>
         LET x == InnerOf(k)
             idx == insertion_idx(nodes[x].elements, k)
             leaf == TargetLeaf(k)
             sub == Substitute(k)
         IN /\ run' = "ok"
            /\ TreeKeys' = TreeKeys \ {k}
            /\ Valid'
            /\ Len(nodes[leaf].elements) > MinEntries(order) =>
                 /\ Len(nodes') = Len(nodes)
                 /\ nodes'[x].elements = [nodes[x].elements EXCEPT ![idx + 1] = sub]
                 /\ Range(nodes'[leaf].elements) = Range(nodes[leaf].elements) \ {sub}
                 /\ Len(nodes'[leaf].elements) = Len(nodes[leaf].elements) - 1]_vars

\* C18.  The height of a tree that is not empty grows only in a call of
\* insert in which the root itself overflows, and in such a call it grows by
\* exactly one and the new root has one entry and two children; no other
\* insert and no remove makes the tree higher.  (Spec)
C18_HeightGrowsByRootSplit ==
  [][/\ (root # NULL /\ Height' > Height) =>
          /\ last'[1] = "insert"
          /\ Height' = Height + 1
          /\ Len(nodes'[root'].elements) = 1
          /\ Len(nodes'[root'].children) = 2
          /\ \E k \in Keys, ver \in Vers :
               IsInsertOf(k, ValueOf(k, ver)) /\ RootOverflows(k, ValueOf(k, ver))
     /\ \A k \in Keys, ver \in Vers :
          (IsInsertOf(k, ValueOf(k, ver)) /\ RootOverflows(k, ValueOf(k, ver))) =>
            Height' = Height + 1]_vars

\* An insert has just wrapped and split an internal root: the tree has three
\* levels and its root one entry and two children.
C18_Witness ==
  /\ last[1] = "insert"
  /\ Height = 3
  /\ Len(nodes[root].elements) = 1
  /\ Len(nodes[root].children) = 2

\* C19.  split_child(parent, i) on a child with n entries puts the entry at
\* mid = (n-1)/2 into parent.elements at i and a new node into
\* parent.children at i+1; the new node holds the entries after mid and the
\* children from children.size()/2 on, the child keeps the entries before mid
\* and the children before that index; no other node changes but for the
\* parent links of the moved grandchildren, and the three nodes together
\* hold the entries they held.  Stated of every child of every node and of
\* every call an insert would make.  (SpecInsert)
SplitPost(h, parent, i) ==
  LET child == At(h[parent].children, i)
      c == h[child]
      n == Len(c.elements)
      mid == (n - 1) \div 2
      midc == Len(c.children) \div 2
      r == split_child(h, parent, i, order)
      new == Len(h) + 1
  IN /\ Len(r) = Len(h) + 1
     /\ r[parent].elements = InsertAt(h[parent].elements, i, At(c.elements, mid))
     /\ r[parent].children = InsertAt(h[parent].children, i + 1, new)
     /\ r[new].elements = SubSeq(c.elements, mid + 2, n)
     /\ r[new].children = SubSeq(c.children, midc + 1, Len(c.children))
     /\ r[new].is_leaf = c.is_leaf
     /\ r[child].elements = SubSeq(c.elements, 1, mid)
     /\ r[child].children = SubSeq(c.children, 1, midc)
     /\ \A x \in DOMAIN h \ {parent, child} :
          IF x \in Range(SubSeq(c.children, midc + 1, Len(c.children)))
          THEN r[x] = [h[x] EXCEPT !.parent = new]
          ELSE r[x] = h[x]
     /\ Range(r[parent].elements) \cup Range(r[child].elements) \cup Range(r[new].elements)
          = Range(h[parent].elements) \cup Range(c.elements)
     /\ Len(r[parent].elements) + Len(r[child].elements) + Len(r[new].elements)
          = Len(h[parent].elements) + n

C19_SplitChild == \A c \in SplitCases : SplitPost(c.h, c.parent, c.child_idx)

\* An insert would split an overflowed internal node (order entries,
\* order + 1 children), and the split is as stated.
C19_Witness ==
  \E c \in SplitCases :
    LET child == c.h[At(c.h[c.parent].children, c.child_idx)]
    IN /\ ~child.is_leaf
       /\ Len(child.elements) = order
       /\ Len(child.children) = order + 1
       /\ SplitPost(c.h, c.parent, c.child_idx)

\* C20.  After every insert of any sequence of inserts the root's parent
\* link is null and every other node's parent link is the node that holds
\* it as a child; and right after each split_child call an insert makes
\* (the one under a new root included) the parent, the two halves and the
\* children of the two halves are linked that way.  (SpecInsert)
LinkedBelow(h, n) == \A c \in Range(h[n].children) : h[c].parent = n

Reachable == IF root = NULL THEN {} ELSE Subtree(nodes, root)

C21_LinksAfterRemove ==
  (last[1] = "remove" /\ run = "ok") =>
    /\ root # NULL => nodes[root].parent = NULL
    /\ \A n \in Reachable :
         /\ LinkedBelow(nodes, n)
         /\ nodes[n].parent \in Reachable \cup {NULL}

\* C22.  Entry conservation.  In every state reached by insert and remove
\* calls without undefined behaviour the nodes reachable from the root hold
\* as many entries as keys have been inserted and not removed, and each of
\* those keys is held once, in one node; a remove of a key the tree holds
\* that returns takes the number of entries down by one and an insert of a
\* key it does not hold takes it up by one.  (Spec)
RECURSIVE SumLen(_, _)
SumLen(h, ns) ==
  IF ns = {} THEN 0
  ELSE LET n == CHOOSE x \in ns : TRUE
       IN Len(h[n].elements) + SumLen(h, ns \ {n})

EntryCount == SumLen(nodes, Reachable)

Holders(k) ==
  {<<n, i>> \in Reachable \X (1..MaxOrder) :
     i <= Len(nodes[n].elements) /\ nodes[n].elements[i].key = k}

C22_EntriesNow ==
  /\ EntryCount = Cardinality(DOMAIN stored)
  /\ \A k \in DOMAIN stored : Cardinality(Holders(k)) = 1

C22_EntryConservation ==
  [][(run' = "ok" /\ C22_EntriesNow) =>
       /\ C22_EntriesNow'
       /\ (last' = <<"remove", TRUE>>) => EntryCount' = EntryCount - 1
       /\ (last' = <<"insert", FALSE>>) => EntryCount' = EntryCount + 1]_vars
====
